---- MODULE Spec2Model ----
(***************************************************************************)
(* Model of the agent orchestration core of the Chin Hin employee          *)
(* assistant: backend/app/agents/function_agent.py (model rotation, the    *)
(* LangGraph agent loop with its context window, the retry supervisor      *)
(* agentic_chat) and its caller backend/app/api/v1/chat.py (send_message). *)
(***************************************************************************)
EXTENDS Integers, Sequences, FiniteSets, TLC

(***************************************************************************)
(* Program constants                                                       *)
(***************************************************************************)
MAX_HISTORY_MESSAGES == 6

MAX_ROTATION_RETRIES == 7

MODELS_TO_TRY ==
    << "gemini-2.5-flash", "gemini-2.5-flash-lite", "gemini-2.0-flash",
       "gemma-3-27b-it", "gemma-3-12b-it", "gemma-3-4b-it", "gemma-3-2b-it" >>

\* Settings.gemini_api_keys is the raw GEMINI_API_KEYS string (a str field);
\* here the two comma-separated keys "a" and "b", one character per element.
gemini_api_keys == << "a", ",", "b" >>

\* Settings.gemini_api_key_list: the keys of the comma-separated string
gemini_api_key_list == SelectSeq(gemini_api_keys, LAMBDA c : c # ",")

\* a Settings instance: GEMINI_API_KEYS and the individual GEMINI_API_KEY,
\* the two further individual keys left at their default ""
Settings(keys, key) ==
    [ gemini_api_keys |-> keys, gemini_api_key |-> key,
      gemini_api_key_2 |-> "", gemini_api_key_3 |-> "" ]

\* the property gemini_api_key_list of a Settings instance: the entries of
\* the comma-separated string, or else the individual keys that are set
Settings_gemini_api_key_list(s) ==
    LET keys == SelectSeq(s.gemini_api_keys, LAMBDA c : c # ",")
    IN  IF s.gemini_api_keys # << >> /\ keys # << >>
        THEN keys
        ELSE SelectSeq(<< s.gemini_api_key, s.gemini_api_key_2,
                          s.gemini_api_key_3 >>, LAMBDA k : k # "")

\* the markers is_retryable_error looks for in the lower-cased error text
RetryableMarkers ==
    { "quota", "rate_limit", "resource_exhausted", "429", "too many requests",
      "exceeded", "not_found", "404", "not found" }

(***************************************************************************)
(* Bounds of the model                                                     *)
(***************************************************************************)
\* number of chat requests served by the process
MaxTurns == 2

\* number of ACT steps (tool rounds) the process executes
MaxToolRounds == 2

\* number of model calls that raise while the process runs
MaxErrors == 1

\* number of chat requests served while the backend is out of quota
MaxOutageTurns == 5

\* number of chat requests served while the backend and the environment
\* may be at fault
MaxFaultTurns == 2

\* number of chat requests each of the two concurrent tasks serves
MaxTaskTurns == 2

\* bound on _current_model_index in the rotation-only specification
MaxModelIndex == 16

\* the days of the leave balance row of the user (total_days)
LeaveTotalDays == 4

\* the longest leave asked for in one apply_leave call
MaxLeaveDays == 2

\* turns of the specification with a partly healthy backend
MaxGoodTurns == 3

Users == { "u1", "u2" }

\* one conversation per user (conversations.user_id)
Conversations == { "c1", "c2" }

ConvOwner(c) == IF c = "c1" THEN "u1" ELSE "u2"

\* table "nudges", which the core only reads: the unread notifications
\* (title, content) of each user; u1 has two, u2 has none
UnreadNudges(user_id) ==
    IF user_id = "u1" THEN << <<"t1", "n1">>, <<"t2", "n2">> >> ELSE << >>

\* thread ids of the checkpointer: the default of agentic_chat and the ids
\* of the conversations
Threads == { "default" } \cup Conversations

None == "None"

\* the requests for tool calls the backend may answer with (tool names, in
\* call order)
ToolRequests == { << "apply_leave" >>, << "get_leave_balance", "apply_leave" >> }

\* what the n calls of one ACT step report (success of each, in call order):
\* every call succeeds, or the first one fails
ToolOutcomes(n) == { [ i \in 1..n |-> TRUE ], [ i \in 1..n |-> i # 1 ] }

\* the texts of the exceptions a model call may raise
ErrorTexts == { "429 quota exceeded", "500 internal error" }

VARIABLES
    _current_model_index,   \* function_agent._current_model_index
    _current_key_index,     \* function_agent._current_key_index
    _failed_models,         \* function_agent._failed_models
    rot_ret,                \* what the last rotation call returned
    _agent,                 \* function_agent._agent: the compiled graph
    _agent_model,           \* function_agent._agent_model
    memory,                 \* the MemorySaver of _agent: thread id -> messages
    db_messages,            \* table "messages": conversation -> rows
    pc,                     \* position of the request being served
    turn,                   \* the request: user, conversation, thread, nudges
    initial_state,          \* agentic_chat's initial_state
    attempt,                \* loop variable of the retry loop
    exc,                    \* the exception in flight
    last_error,             \* agentic_chat's last_error
    window,                 \* the messages last passed to llm_with_tools.invoke
    result,                 \* what agentic_chat returned last
    next_call_id,           \* ids the backend gives to tool calls
    trace,                  \* history of the turn: attempts, marks, errors, effects
    spent,                  \* tool rounds executed and errors raised so far
    settings,               \* the cached Settings instance (get_settings)
    tasks,                  \* concurrent requests: the locals of each task
    running,                \* the task that holds the event loop, 0 when none
    supabase,               \* the leave tables of the database the tools call
    tool_ret,               \* what the last tool called on its own returned
    healthy                 \* the models of the backend that answer a call

rotvars == << _current_model_index, _current_key_index, _failed_models >>

chatvars == << _agent, _agent_model, memory, db_messages, pc, turn,
               initial_state, attempt, exc, last_error, window, result,
               next_call_id, trace, spent >>

\* the requests served as concurrent tasks
concvars == << tasks, running >>

\* what no step of a request served alone changes
\* the tools called on their own
toolvars == << supabase, tool_ret >>

\* the environment of the process: its settings and the model backend
envvars == << settings, healthy >>

aside == << rot_ret, envvars, concvars, toolvars >>

vars == << rotvars, chatvars, aside >>

(***************************************************************************)
(* Model/credential rotation                                               *)
(***************************************************************************)
NumModels == Len(MODELS_TO_TRY)

\* MODELS_TO_TRY[i % len(MODELS_TO_TRY)], Python 0-based indexing
ModelAt(i) == MODELS_TO_TRY[(i % NumModels) + 1]

\* api_keys[i % len(api_keys)] of the string settings.gemini_api_keys
KeyAt(api_keys, i) == api_keys[(i % Len(api_keys)) + 1]

\* a scan that steps over one failed model at most
SkipFailed_One(idx, failed, attempts) ==
    IF ModelAt(idx) \in failed THEN 1 ELSE 0

\* the loop without its test for failed models
SkipFailed_NoSkip(idx, failed, attempts) == attempts

\* the while loop of get_next_model_config: number of models skipped from
\* index idx before one that is not in failed is met (NumModels when none)
RECURSIVE SkipFailed(_, _, _)
SkipFailed(idx, failed, attempts) ==
    IF attempts < NumModels /\ ModelAt(idx) \in failed
    THEN SkipFailed(idx + 1, failed, attempts + 1)
    ELSE attempts

\* a variant whose exhaustion branch keeps the set of failed models
GetNextModelConfig_KeepFailed(rs) ==
    LET api_keys == settings.gemini_api_keys
        n   == SkipFailed(rs.idx, rs.failed, 0)
        idx == rs.idx + n
    IN  IF n < NumModels
        THEN [ idx |-> idx, key |-> rs.key, failed |-> rs.failed,
               model |-> ModelAt(idx), api_key |-> KeyAt(api_keys, rs.key),
               raised |-> FALSE ]
        ELSE [ idx |-> idx, key |-> rs.key, failed |-> rs.failed,
               model |-> MODELS_TO_TRY[1], api_key |-> KeyAt(api_keys, rs.key),
               raised |-> FALSE ]

\* a round-robin variant: the cursor is left one past the model returned
GetNextModelConfig_Advance(rs) ==
    LET api_keys == settings.gemini_api_keys
        n   == SkipFailed(rs.idx, rs.failed, 0)
        idx == rs.idx + n
    IN  [ idx |-> idx + 1, key |-> rs.key, failed |-> rs.failed,
          model |-> ModelAt(idx), api_key |-> KeyAt(api_keys, rs.key),
          raised |-> FALSE ]

\* get_next_model_config on the rotation state rs = [idx, key, failed]:
\* the state it leaves and the (model, api_key) it returns
\* (raised: the ValueError "No Gemini API keys configured!")
GetNextModelConfig(rs) ==
    LET api_keys == settings.gemini_api_keys
        n   == SkipFailed(rs.idx, rs.failed, 0)
        idx == rs.idx + n
    IN  IF api_keys = << >>
        THEN [ idx |-> rs.idx, key |-> rs.key, failed |-> rs.failed,
               model |-> None, api_key |-> None, raised |-> TRUE ]
        ELSE IF n < NumModels
        THEN [ idx |-> idx, key |-> rs.key, failed |-> rs.failed,
               model |-> ModelAt(idx), api_key |-> KeyAt(api_keys, rs.key),
               raised |-> FALSE ]
        ELSE LET k1  == rs.key + 1
                 key == IF k1 >= Len(api_keys) THEN 0 ELSE k1
             IN  [ idx |-> idx, key |-> key, failed |-> {},
                   model |-> MODELS_TO_TRY[1], api_key |-> KeyAt(api_keys, key),
                   raised |-> FALSE ]

\* a rotation that remembers the last failed model only
RotateToNextModel_Replace(rs, failed_model) ==
    GetNextModelConfig(
        [ idx    |-> rs.idx + 1,
          key    |-> rs.key,
          failed |-> IF failed_model # None THEN { failed_model } ELSE rs.failed ])

\* rotate_to_next_model(failed_model); failed_model = None adds nothing
RotateToNextModel(rs, failed_model) ==
    GetNextModelConfig(
        [ idx    |-> rs.idx + 1,
          key    |-> rs.key,
          failed |-> IF failed_model # None THEN rs.failed \cup { failed_model }
                     ELSE rs.failed ])

RotState == [ idx |-> _current_model_index, key |-> _current_key_index,
              failed |-> _failed_models ]

SetRotState(r) ==
    /\ _current_model_index' = r.idx
    /\ _current_key_index' = r.key
    /\ _failed_models' = r.failed

(***************************************************************************)
(* Messages                                                                *)
(***************************************************************************)
\* content of a message: a text, and what the text embeds
\* (a user id, notifications, the text of an error); n tells apart the
\* texts of different turns (for an error: of different attempts)
Content(text, user_id, nudges, error, n) ==
    [ text |-> text, user_id |-> user_id, nudges |-> nudges, error |-> error,
      n |-> n ]

NoContent == Content("", "", << >>, "", 0)

Text(text, n) == Content(text, "", << >>, "", n)

\* conv is the conversation of the turn in which the message was built
Message(type, content, tool_calls, tool_call_id, conv) ==
    [ type |-> type, content |-> content, tool_calls |-> tool_calls,
      tool_call_id |-> tool_call_id, conv |-> conv ]

SystemMessage(content, conv) == Message("system", content, << >>, 0, conv)

HumanMessage(content, conv) == Message("human", content, << >>, 0, conv)

AIMessage(content, tool_calls, conv) == Message("ai", content, tool_calls, 0, conv)

ToolMessage(content, tool_call_id, conv) ==
    Message("tool", content, << >>, tool_call_id, conv)

\* f"{SYSTEM_PROMPT}\n\nCURRENT USER ID: {user_id}..."
CurrentSystemPrompt(user_id) == Content("SYSTEM_PROMPT", user_id, << >>, "", 0)

\* the notice built from nudge_result.data
NudgeNotice(nudges) == Content("UNREAD NOTIFICATIONS", "", nudges, "", 0)

(***************************************************************************)
(* Context window: agent_node                                              *)
(***************************************************************************)
\* index of the first SystemMessage, 0 when there is none (-1 in the code)
RECURSIVE SystemMsgIndex(_, _)
SystemMsgIndex(messages, i) ==
    IF i > Len(messages) THEN 0
    ELSE IF messages[i].type = "system" THEN i
    ELSE SystemMsgIndex(messages, i + 1)

\* the inner loop: a ToolMessage is met after position i before any
\* HumanMessage
RECURSIVE HasResponse(_, _)
HasResponse(recent_msgs, j) ==
    IF j > Len(recent_msgs) THEN FALSE
    ELSE IF recent_msgs[j].type = "tool" THEN TRUE
    ELSE IF recent_msgs[j].type = "human" THEN FALSE
    ELSE HasResponse(recent_msgs, j + 1)

\* the scan that never moves safe_start
SafeStart_Unmoved(recent_msgs, i, safe_start) == safe_start

\* the outer loop: safe_start (number of leading messages dropped) after
\* scanning from position i (1-based) with the current value safe_start
RECURSIVE SafeStart(_, _, _)
SafeStart(recent_msgs, i, safe_start) ==
    IF i > Len(recent_msgs) THEN safe_start
    ELSE IF recent_msgs[i].type = "tool"
         THEN SafeStart(recent_msgs, i + 1, i)
    ELSE IF recent_msgs[i].type = "ai" /\ recent_msgs[i].tool_calls # << >>
         THEN IF HasResponse(recent_msgs, i + 1)
              THEN SafeStart(recent_msgs, i + 1, safe_start)
              ELSE SafeStart(recent_msgs, i + 1, i)
    ELSE safe_start

\* a slice that keeps one message more
LastN_OneMore(messages, n) ==
    IF Len(messages) <= n + 1 THEN messages
    ELSE SubSeq(messages, Len(messages) - n, Len(messages))

\* messages[-(MAX_HISTORY_MESSAGES):]
LastN(messages, n) ==
    IF Len(messages) <= n THEN messages
    ELSE SubSeq(messages, Len(messages) - n + 1, Len(messages))

\* the system message is added or the first one is replaced
WithSystemPrompt(messages, user_id, conv) ==
    LET system_msg_index == SystemMsgIndex(messages, 1)
        prompt == SystemMessage(CurrentSystemPrompt(user_id), conv)
    IN  IF system_msg_index # 0
        THEN [ messages EXCEPT ![system_msg_index] = prompt ]
        ELSE << prompt >> \o messages

\* the sliding window over the messages with the system prompt in place
SlidingWindow(messages) ==
    IF Len(messages) > MAX_HISTORY_MESSAGES + 1
    THEN LET system_msg  == messages[1]
             recent_msgs == LastN(messages, MAX_HISTORY_MESSAGES)
             safe_start  == SafeStart(recent_msgs, 1, 0)
         IN  << system_msg >> \o SubSeq(recent_msgs, safe_start + 1, Len(recent_msgs))
    ELSE messages

\* the messages agent_node passes to the model for the state messages
AgentWindow(messages, user_id, conv) ==
    SlidingWindow(WithSystemPrompt(messages, user_id, conv))

(***************************************************************************)
(* Error classification                                                    *)
(***************************************************************************)
\* the markers that occur in the lower-cased text of an error
MarkersIn(text) ==
    IF text = "429 quota exceeded" THEN { "429", "quota", "exceeded" } ELSE { }

\* every error is taken for a retryable one
is_retryable_error_any(error) == TRUE

\* a classification that knows the rate-limit marker only
is_retryable_error_rate_limit(error) == "rate_limit" \in MarkersIn(error.text)

is_retryable_error(error) == MarkersIn(error.text) \cap RetryableMarkers # { }

(***************************************************************************)
(* State after start-up                                                    *)
(***************************************************************************)
NoAgent == [ model |-> None, api_key |-> None ]

EmptyMemory == [ t \in Threads |-> << >> ]

NoError == [ text |-> "", n |-> 0 ]

NoTurn == [ user |-> None, conv |-> None, thread |-> None, nudges |-> << >> ]

NoResult == [ response |-> NoContent, actions |-> << >>, conversation_id |-> None,
              model_used |-> None, error |-> NoError ]

\* the rotation globals as the module is loaded
NoRotState == [ idx |-> 0, key |-> 0, failed |-> { } ]

\* the leave tables before any request: the balance row of the user for
\* the leave type and the year, and no leave request
NoLeave == [ leave_balances |-> [ total_days |-> LeaveTotalDays, used_days |-> 0,
                                  pending_days |-> 0 ],
             leave_requests |-> << >> ]

\* a result object as the properties see it: its keys and, when it has
\* the key, the value of success
ResultObject(keys, success) == [ keys |-> keys, success |-> success ]

\* no tool was called yet
NoToolCall == [ tool |-> None, raised |-> FALSE, result |-> ResultObject({ }, FALSE),
                before |-> NoLeave ]

\* the two requests served concurrently
Tasks == { 1, 2 }

\* a task before its first request: position, loop variable, the model its
\* attempt is bound to, the models it marked failed (each with the model the
\* failing attempt was bound to), the models whose call raised, the requests
\* it has served
NoTask == [ pc |-> "idle", attempt |-> 0, bound |-> None, marked |-> << >>,
            raised |-> { }, turns |-> 0 ]

NoTrace == [ no |-> 0, calls |-> 0, round |-> 0, window_of |-> << >>,
             marked |-> << >>, errors |-> << >>, effects |-> { },
             fired |-> << >>, attempted |-> << >>, rot_before |-> NoRotState,
             quota_failed |-> { }, failing |-> { } ]

\* the state after the modules are loaded, whatever the environment holds
InitGlobals ==
    /\ _current_model_index = 0
    /\ _current_key_index = 0
    /\ _failed_models = { }
    /\ rot_ret = NoAgent
    /\ _agent = NoAgent
    /\ _agent_model = None
    /\ memory = EmptyMemory
    /\ db_messages = [ c \in Conversations |-> << >> ]
    /\ pc = "idle"
    /\ turn = NoTurn
    /\ initial_state = [ messages |-> << >>, user_id |-> None, actions_taken |-> << >> ]
    /\ attempt = 0
    /\ exc = NoError
    /\ last_error = NoError
    /\ window = << >>
    /\ result = NoResult
    /\ next_call_id = 1
    /\ trace = NoTrace
    /\ spent = [ tool_rounds |-> 0, errors |-> 0 ]
    /\ tasks = [ p \in Tasks |-> NoTask ]
    /\ running = 0
    /\ supabase = NoLeave
    /\ tool_ret = NoToolCall
    /\ healthy = { }

\* the settings read from an environment that sets GEMINI_API_KEYS
Init ==
    /\ settings = Settings(gemini_api_keys, "")
    /\ InitGlobals

(***************************************************************************)
(* send_message (chat.py) up to the retry loop of agentic_chat             *)
(***************************************************************************)
\* one row of history as a message: role user / assistant, others dropped
RECURSIVE HistoryMessages(_, _)
HistoryMessages(recent_history, conv) ==
    IF recent_history = << >> THEN << >>
    ELSE LET h == Head(recent_history)
             rest == HistoryMessages(Tail(recent_history), conv)
         IN  IF h.role = "user" THEN << HumanMessage(h.content, conv) >> \o rest
             ELSE IF h.role = "assistant"
                  THEN << AIMessage(h.content, << >>, conv) >> \o rest
             ELSE rest

\* the messages of initial_state: notice, recent history, the new message
BuildMessages(message, history, nudges, conv) ==
    LET notice == IF nudges # << >>
                  THEN << SystemMessage(NudgeNotice(nudges), conv) >>
                  ELSE << >>
        recent_history == LastN(history, MAX_HISTORY_MESSAGES - 1)
    IN  notice \o HistoryMessages(recent_history, conv)
               \o << HumanMessage(message, conv) >>

\* the thread id send_message leaves to agentic_chat: no conversation_id is
\* passed, so it is the default of the parameter
EndpointThread(conversation_id) == "default"

SendMessage(conversation_id) ==
    /\ pc \in { "idle", "raised" }
    /\ LET user_id == ConvOwner(conversation_id)
           message == Text("message", trace.no + 1)
           nudges == UnreadNudges(user_id)      \* nudge_result.data
           history == db_messages[conversation_id]
       IN  /\ db_messages' = [ db_messages EXCEPT ![conversation_id] =
                                 Append(@, [ role |-> "user", content |-> message ]) ]
           /\ turn' = [ user |-> user_id, conv |-> conversation_id,
                        thread |-> EndpointThread(conversation_id),
                        nudges |-> nudges ]
           /\ initial_state' =
                  [ messages |-> BuildMessages(message, history, nudges, conversation_id),
                    user_id |-> user_id, actions_taken |-> << >> ]
    /\ attempt' = 0
    /\ last_error' = NoError
    /\ trace' = [ NoTrace EXCEPT !.no = trace.no + 1,
                                 !.quota_failed = trace.quota_failed,
                                 !.failing = trace.failing ]
    /\ exc' = NoError
    /\ window' = << >>
    /\ result' = NoResult
    /\ pc' = "attempt"
    /\ UNCHANGED << rotvars, aside, _agent, _agent_model, memory, next_call_id,
                    spent >>

(***************************************************************************)
(* One attempt: get_agent, then agent.invoke(initial_state, config)        *)
(***************************************************************************)
\* str() of the ValueError of get_next_model_config
NoKeysError == "No Gemini API keys configured!"

\* an agent whose model is fixed, whatever model is asked for
create_agent_DefaultModel(model_name, api_key) ==
    [ model |-> MODELS_TO_TRY[1], api_key |-> api_key ]

\* create_agent(model_name, api_key): the graph's model is
\* ChatGoogleGenerativeAI(model=model_name, google_api_key=api_key)
create_agent(model_name, api_key) ==
    [ model |-> model_name, api_key |-> api_key ]

BeginAttempt ==
    /\ pc = "attempt"
    /\ LET r1 == GetNextModelConfig(RotState)          \* in get_agent
           create == _agent = NoAgent \/ attempt > 0 \/ _agent_model # r1.model
           saver == IF create THEN EmptyMemory ELSE memory
           r2 == GetNextModelConfig(r1)                \* current_model
       IN  IF r1.raised
           THEN \* get_agent raises inside the try block
                /\ exc' = [ text |-> NoKeysError, n |-> attempt + 1 ]
                /\ trace' = [ trace EXCEPT !.round = 0, !.rot_before = RotState ]
                /\ pc' = "except"
                /\ UNCHANGED << rotvars, _agent, _agent_model, memory >>
           ELSE /\ SetRotState(r2)
                /\ _agent' = IF create
                             THEN create_agent(r1.model, r1.api_key)
                             ELSE _agent
                /\ _agent_model' = IF create THEN r1.model ELSE _agent_model
                \* the input is added to the checkpointed channel (operator.add)
                /\ memory' = [ saver EXCEPT ![turn.thread] =
                                  @ \o initial_state.messages ]
                /\ trace' = [ trace EXCEPT
                       !.round = 0, !.rot_before = RotState,
                       !.attempted = Append(@, [ model |-> r1.model,
                                                 api_key |-> r1.api_key ]) ]
                /\ exc' = exc
                /\ pc' = "agent"
    /\ UNCHANGED << aside, db_messages, turn, initial_state, attempt,
                    last_error, window, result, next_call_id, spent >>

\* the window agent_node builds in the current state
CurrentWindow ==
    AgentWindow(memory[turn.thread], initial_state.user_id, turn.conv)

\* the call is counted, with the state messages its window was built from
\* and with its outcome for the model the agent is bound to
Called(outcome) ==
    [ trace EXCEPT !.calls = @ + 1, !.round = @ + 1,
                   !.window_of = memory[turn.thread],
                   !.failing = IF outcome = "retryable"
                               THEN @ \cup { _agent.model }
                               ELSE @ \ { _agent.model },
                   !.quota_failed = IF outcome = "retryable"
                                    THEN @ \cup { _agent.model } ELSE @ ]

\* an edge that leads to the tools whatever the model answered
should_continue_tools(last_message) == "tools"

\* the conditional edge after agent_node
should_continue(last_message) ==
    IF last_message.tool_calls # << >> THEN "tools" ELSE "end"

\* the node the edge leads to: "tools", or END, where agent.invoke returns
EdgeTarget(edge) == IF edge = "tools" THEN "tools" ELSE "extract"

\* agent_node: the model answers without tool calls; should_continue: end
AgentNodeAnswer(text) ==
    /\ pc = "agent"
    /\ window' = CurrentWindow
    /\ LET response == AIMessage(Text(text, trace.no), << >>, turn.conv)
       IN  /\ memory' = [ memory EXCEPT ![turn.thread] = Append(@, response) ]
           /\ pc' = EdgeTarget(should_continue(response))
    /\ trace' = Called("returned")
    /\ UNCHANGED << rotvars, aside, _agent, _agent_model, db_messages, turn,
                    initial_state, attempt, exc, last_error, result, next_call_id,
                    spent >>

\* agent_node: the model asks for tool calls; should_continue: tools
AgentNodeToolCalls(request) ==
    /\ pc = "agent"
    /\ spent.tool_rounds < MaxToolRounds
    /\ window' = CurrentWindow
    /\ LET tool_calls == [ i \in 1..Len(request) |->
                             [ id |-> next_call_id + i - 1, name |-> request[i],
                               args |-> initial_state.user_id ] ]
           response == AIMessage(NoContent, tool_calls, turn.conv)
       IN  /\ memory' = [ memory EXCEPT ![turn.thread] = Append(@, response) ]
           /\ pc' = EdgeTarget(should_continue(response))
    /\ next_call_id' = next_call_id + Len(request)
    /\ trace' = Called("returned")
    /\ UNCHANGED << rotvars, aside, _agent, _agent_model, db_messages, turn,
                    initial_state, attempt, exc, last_error, result, spent >>

\* agent_node: llm_with_tools.invoke raises
AgentNodeRaise(text) ==
    /\ pc = "agent"
    /\ spent' = [ spent EXCEPT !.errors = @ + 1 ]
    /\ window' = CurrentWindow
    /\ exc' = [ text |-> text, n |-> attempt + 1 ]
    /\ trace' = Called(IF is_retryable_error([ text |-> text, n |-> 0 ])
                       THEN "retryable" ELSE "fatal")
    /\ pc' = "except"
    /\ UNCHANGED << rotvars, aside, _agent, _agent_model, memory, db_messages,
                    turn, initial_state, attempt, last_error, result, next_call_id >>

\* an executor that stops at the first call that fails
ExecuteTools_StopAtFailure(tcs, success, n, conv) ==
    LET ran == { i \in 1..Len(tcs) : \A j \in 1..(i - 1) : success[j] }
    IN  [ i \in 1..Cardinality(ran) |->
            ToolMessage(Text(IF success[i] THEN "success" ELSE "error", n),
                        tcs[i].id, conv) ]

\* ToolNode(ALL_TOOLS).invoke: every call is executed, a tool that fails
\* reports it in its result; one ToolMessage for each call, in call order
ExecuteTools(tcs, success, n, conv) ==
    [ i \in 1..Len(tcs) |->
        ToolMessage(Text(IF success[i] THEN "success" ELSE "error", n),
                    tcs[i].id, conv) ]

\* tracking that starts from an empty list in every round
TrackActions_Fresh(actions, tcs) ==
    [ i \in 1..Len(tcs) |-> [ tool |-> tcs[i].name, args |-> tcs[i].args ] ]

\* the calls of the last message appended to the actions of the state
TrackActions(actions, tcs) ==
    actions \o [ i \in 1..Len(tcs) |->
                  [ tool |-> tcs[i].name, args |-> tcs[i].args ] ]

\* tool_node: every call of the last message is executed, its result is
\* appended as a ToolMessage, and the calls are added to actions_taken (the
\* list object of initial_state, which the state channel holds)
ToolNode(success) ==
    /\ pc = "tools"
    /\ LET messages == memory[turn.thread]
           last_message == messages[Len(messages)]
           tcs == last_message.tool_calls
           results == ExecuteTools(tcs, success, trace.no, turn.conv)
       IN  /\ DOMAIN success = 1..Len(tcs)
           /\ memory' = [ memory EXCEPT ![turn.thread] = @ \o results ]
           /\ initial_state' = [ initial_state EXCEPT !.actions_taken =
                                    TrackActions(@, tcs) ]
           /\ spent' = [ spent EXCEPT !.tool_rounds = @ + 1 ]
           /\ trace' = [ trace EXCEPT
                  !.fired = @ \o [ i \in 1..Len(tcs) |->
                                     [ tool |-> tcs[i].name, args |-> tcs[i].args ] ],
                  !.effects = @ \cup { [ attempt |-> attempt, name |-> tcs[i].name,
                                         args |-> tcs[i].args, id |-> tcs[i].id,
                                         success |-> success[i] ] : i \in 1..Len(tcs) } ]
    /\ pc' = "agent"
    /\ UNCHANGED << rotvars, aside, _agent, _agent_model, db_messages, turn,
                    attempt, exc, last_error, window, result, next_call_id >>

(***************************************************************************)
(* The end of an attempt                                                   *)
(***************************************************************************)
\* content of the last AIMessage with content, "" when there is none
RECURSIVE RawResponse(_, _)
RawResponse(final_messages, i) ==
    IF i = 0 THEN NoContent
    ELSE IF final_messages[i].type = "ai" /\ final_messages[i].content.text # ""
         THEN final_messages[i].content
    ELSE RawResponse(final_messages, i - 1)

\* the extracted content without fallback
ResponseOf_Raw(final_messages) == RawResponse(final_messages, Len(final_messages))

\* ai_response or "Done!"
ResponseOf(final_messages) ==
    LET ai_response == RawResponse(final_messages, Len(final_messages))
    IN  IF ai_response.text # "" THEN ai_response ELSE Text("Done!", 0)

\* a failure response that does not tell the error
FailureResponse_Generic(error) == Content("Alamak", "", << >>, "", 0)

\* the failure response, which embeds str(last_error)
FailureResponse(error) == Content("Alamak", "", << >>, error.text, error.n)

\* send_message saves the response as the assistant row of the conversation
SaveResponse(ai_response) ==
    db_messages' = [ db_messages EXCEPT ![turn.conv] =
                       Append(@, [ role |-> "assistant", content |-> ai_response ]) ]

\* agent.invoke returned: the response is extracted and returned, and
\* send_message stores it
ReturnSuccess ==
    /\ pc = "extract"
    /\ LET final_messages == memory[turn.thread]
           response == ResponseOf(final_messages)
           current_model == GetNextModelConfig(RotState).model
       IN  /\ result' = [ response |-> response,
                          actions |-> initial_state.actions_taken,
                          conversation_id |-> turn.thread,
                          model_used |-> current_model,
                          error |-> NoError ]
           /\ SaveResponse(response)
    /\ pc' = "idle"
    /\ UNCHANGED << rotvars, aside, _agent, _agent_model, memory, turn,
                    initial_state, attempt, exc, last_error, window,
                    next_call_id, trace, spent >>

\* except branch, retryable error and attempts left: the current model is
\* marked failed, the agent is dropped, the loop continues
ExceptRotate ==
    /\ pc = "except"
    /\ ~ GetNextModelConfig(RotState).raised
    /\ is_retryable_error(exc) /\ attempt < MAX_ROTATION_RETRIES - 1
    /\ LET r0 == GetNextModelConfig(RotState)          \* current_model
           r1 == RotateToNextModel(r0, r0.model)
       IN  /\ SetRotState(r1)
           /\ trace' = [ trace EXCEPT !.marked = Append(@, r0.model),
                                      !.errors = Append(@, exc) ]
    /\ last_error' = exc
    /\ _agent' = NoAgent
    /\ memory' = EmptyMemory
    /\ attempt' = attempt + 1
    /\ pc' = "attempt"
    /\ UNCHANGED << aside, _agent_model, db_messages, turn, initial_state, exc,
                    window, result, next_call_id, spent >>

\* except branch, fatal error or last attempt: break, the failure response
\* is returned, and send_message stores it
ExceptGiveUp ==
    /\ pc = "except"
    /\ ~ GetNextModelConfig(RotState).raised
    /\ ~ (is_retryable_error(exc) /\ attempt < MAX_ROTATION_RETRIES - 1)
    /\ LET r0 == GetNextModelConfig(RotState)          \* current_model
           response == FailureResponse(exc)
       IN  /\ SetRotState(r0)
           /\ result' = [ response |-> response, actions |-> << >>,
                          conversation_id |-> None, model_used |-> None,
                          error |-> exc ]
           /\ SaveResponse(response)
    /\ last_error' = exc
    /\ trace' = [ trace EXCEPT !.errors = Append(@, exc) ]
    /\ pc' = "idle"
    /\ UNCHANGED << aside, _agent, _agent_model, memory, turn, initial_state,
                    attempt, exc, window, next_call_id, spent >>

\* except branch without API keys: get_next_model_config raises again, in
\* the handler, and the exception leaves agentic_chat; send_message stores
\* no response
ExceptPropagate ==
    /\ pc = "except"
    /\ GetNextModelConfig(RotState).raised
    /\ last_error' = exc
    /\ exc' = [ text |-> NoKeysError, n |-> attempt + 1 ]
    /\ trace' = [ trace EXCEPT !.errors = Append(@, exc) ]
    /\ pc' = "raised"
    /\ UNCHANGED << rotvars, aside, _agent, _agent_model, memory, db_messages,
                    turn, initial_state, attempt, window, result, next_call_id,
                    spent >>

Next ==
    \/ \E c \in Conversations : trace.no < MaxTurns /\ SendMessage(c)
    \/ BeginAttempt
    \/ \E text \in { "answer", "" } : AgentNodeAnswer(text)
    \/ \E request \in ToolRequests : AgentNodeToolCalls(request)
    \/ \E text \in ErrorTexts : spent.errors < MaxErrors /\ AgentNodeRaise(text)
    \/ \E n \in 1..2 : \E success \in ToolOutcomes(n) : ToolNode(success)
    \/ ReturnSuccess
    \/ ExceptRotate
    \/ ExceptGiveUp

Spec == Init /\ [][Next]_vars

(***************************************************************************)
(* The rotation functions called in any order                              *)
(***************************************************************************)
\* a call of get_next_model_config()
CallGetNextModelConfig ==
    /\ _current_model_index <= MaxModelIndex
    /\ LET r == GetNextModelConfig(RotState)
       IN  /\ SetRotState(r)
           /\ rot_ret' = [ model |-> r.model, api_key |-> r.api_key ]
    /\ UNCHANGED << chatvars, envvars, concvars, toolvars >>

\* a call of rotate_to_next_model(failed_model)
CallRotateToNextModel(failed_model) ==
    /\ _current_model_index <= MaxModelIndex
    /\ LET r == RotateToNextModel(RotState, failed_model)
       IN  /\ SetRotState(r)
           /\ rot_ret' = [ model |-> r.model, api_key |-> r.api_key ]
    /\ UNCHANGED << chatvars, envvars, concvars, toolvars >>

ModelNames == { MODELS_TO_TRY[i] : i \in 1..NumModels }

NextRot ==
    \/ CallGetNextModelConfig
    \/ \E m \in ModelNames \cup { None } : CallRotateToNextModel(m)

SpecRot == Init /\ [][NextRot]_vars

(***************************************************************************)
(* The chat endpoint while the backend is out of quota: a model call       *)
(* either raises the quota error or, once quota is back, answers           *)
(***************************************************************************)
QuotaError == "429 quota exceeded"

NextOutage ==
    \/ trace.no < MaxOutageTurns /\ SendMessage("c2")
    \/ BeginAttempt
    \/ AgentNodeRaise(QuotaError)
    \/ AgentNodeAnswer("answer")
    \/ ReturnSuccess
    \/ ExceptRotate
    \/ ExceptGiveUp

SpecOutage == Init /\ [][NextOutage]_vars

(***************************************************************************)
(* The chat endpoint with faults: a model call answers, raises the quota   *)
(* error or raises a fatal error, and the environment may hold no API keys *)
(***************************************************************************)
FatalError == "500 internal error"

\* GEMINI_API_KEYS as configured, or left at its default "", with or
\* without the individual GEMINI_API_KEY
KeySettings == { Settings(gemini_api_keys, ""),
                 Settings(<< >>, ""),
                 Settings(<< >>, "c") }

InitFaults ==
    /\ settings \in KeySettings
    /\ InitGlobals

NextFaults ==
    \/ trace.no < MaxFaultTurns /\ SendMessage("c2")
    \/ BeginAttempt
    \/ \E text \in { QuotaError, FatalError } : AgentNodeRaise(text)
    \/ AgentNodeAnswer("answer")
    \/ AgentNodeToolCalls(<< "apply_leave" >>)
    \/ ToolNode(<< TRUE >>)
    \/ ReturnSuccess
    \/ ExceptRotate
    \/ ExceptGiveUp
    \/ ExceptPropagate

SpecFaults == InitFaults /\ [][NextFaults]_vars

(***************************************************************************)
(* Two requests served as tasks of one event loop; they share the rotation *)
(* globals and the cached agent. Every model call raises the quota error   *)
(* or answers.                                                             *)
(***************************************************************************)
\* a task that would hand the event loop to another only where it awaits
Suspends_AtInvoke(position) == position = "agent"

\* whether a task at this position of agentic_chat has handed the event
\* loop over: the function awaits nothing (agent.invoke is a plain call), so
\* a turn runs from its start to its return without another task in between
Suspends(position) == FALSE

\* task p may take a step: it holds the event loop, or nobody does
CanStep(p) == running \in { 0, p }

\* the holder of the event loop after task p reached the position
Holder(p, position) ==
    IF position = "idle" \/ Suspends(position) THEN 0 ELSE p

\* what the steps of the tasks leave alone
taskframe == << rot_ret, envvars, toolvars, memory, db_messages, pc, turn, initial_state,
               attempt, exc, last_error, window, result, next_call_id, trace,
               spent >>

\* send_message of task p reaches agentic_chat
TaskStart(p) ==
    /\ CanStep(p)
    /\ tasks[p].pc = "idle" /\ tasks[p].turns < MaxTaskTurns
    /\ tasks' = [ tasks EXCEPT ![p] = [ @ EXCEPT !.pc = "attempt", !.attempt = 0,
                                                 !.bound = None, !.marked = << >>,
                                                 !.turns = @ + 1 ] ]
    /\ running' = Holder(p, "attempt")
    /\ UNCHANGED << rotvars, _agent, _agent_model, taskframe >>

\* get_agent and the read of current_model, up to agent.invoke
TaskBeginAttempt(p) ==
    /\ CanStep(p)
    /\ tasks[p].pc = "attempt"
    /\ LET r1 == GetNextModelConfig(RotState)
           create == _agent = NoAgent \/ tasks[p].attempt > 0
                                     \/ _agent_model # r1.model
           agent == IF create THEN create_agent(r1.model, r1.api_key)
                    ELSE _agent
           r2 == GetNextModelConfig(r1)
       IN  /\ SetRotState(r2)
           /\ _agent' = agent
           /\ _agent_model' = IF create THEN r1.model ELSE _agent_model
           /\ tasks' = [ tasks EXCEPT ![p] = [ @ EXCEPT !.pc = "agent",
                                                        !.bound = agent.model ] ]
    /\ running' = Holder(p, "agent")
    /\ UNCHANGED taskframe

\* agent.invoke of task p raises the quota error
TaskInvokeRaise(p) ==
    /\ CanStep(p)
    /\ tasks[p].pc = "agent"
    /\ tasks' = [ tasks EXCEPT ![p] = [ @ EXCEPT !.pc = "except",
                                                 !.raised = @ \cup { tasks[p].bound } ] ]
    /\ running' = Holder(p, "except")
    /\ UNCHANGED << rotvars, _agent, _agent_model, taskframe >>

\* agent.invoke of task p returns, and so does agentic_chat
TaskInvokeReturn(p) ==
    /\ CanStep(p)
    /\ tasks[p].pc = "agent"
    /\ tasks' = [ tasks EXCEPT ![p] = [ @ EXCEPT !.pc = "idle" ] ]
    /\ running' = Holder(p, "idle")
    /\ UNCHANGED << rotvars, _agent, _agent_model, taskframe >>

\* except branch of task p with attempts left: the current model is marked
TaskExceptRotate(p) ==
    /\ CanStep(p)
    /\ tasks[p].pc = "except"
    /\ is_retryable_error([ text |-> QuotaError, n |-> 0 ])
    /\ tasks[p].attempt < MAX_ROTATION_RETRIES - 1
    /\ LET r0 == GetNextModelConfig(RotState)          \* current_model
           r1 == RotateToNextModel(r0, r0.model)
       IN  /\ SetRotState(r1)
           /\ tasks' = [ tasks EXCEPT ![p] =
                  [ @ EXCEPT !.pc = "attempt", !.attempt = @ + 1,
                             !.marked = Append(@, [ model |-> r0.model,
                                                    bound |-> tasks[p].bound ]) ] ]
    /\ _agent' = NoAgent
    /\ running' = Holder(p, "attempt")
    /\ UNCHANGED << _agent_model, taskframe >>

\* except branch of task p on the last attempt: agentic_chat returns
TaskExceptGiveUp(p) ==
    /\ CanStep(p)
    /\ tasks[p].pc = "except"
    /\ tasks[p].attempt >= MAX_ROTATION_RETRIES - 1
    /\ SetRotState(GetNextModelConfig(RotState))
    /\ tasks' = [ tasks EXCEPT ![p] = [ @ EXCEPT !.pc = "idle" ] ]
    /\ running' = Holder(p, "idle")
    /\ UNCHANGED << _agent, _agent_model, taskframe >>

NextConc ==
    \E p \in Tasks :
        \/ TaskStart(p)
        \/ TaskBeginAttempt(p)
        \/ TaskInvokeRaise(p)
        \/ TaskInvokeReturn(p)
        \/ TaskExceptRotate(p)
        \/ TaskExceptGiveUp(p)

SpecConc == Init /\ [][NextConc]_vars

(***************************************************************************)
(* The tools called on their own, as ToolNode calls them: any tool of the  *)
(* registry, with a database that answers, refuses or raises               *)
(***************************************************************************)
ALL_TOOLS == { "get_leave_balance", "apply_leave", "get_my_leaves", "list_rooms",
               "check_room_availability", "book_room", "get_my_bookings",
               "get_claim_categories", "submit_claim", "get_my_claims",
               "get_today_info", "search_policy", "get_my_nudges" }

\* how the work of a tool goes: done, refused by a check of the tool, or
\* ended by an exception of a database call
ToolOutcomeKinds == { "done", "refused", "exception" }

\* the database calls of apply_leave, in the order it makes them
ApplyLeaveCalls == << "leave_types.select", "leave_balances.select",
                      "leave_balances.update", "leave_requests.insert" >>

\* return {"success": True, ...}
SuccessResult == ResultObject({ "success", "data" }, TRUE)

\* return {"success": False, "error": ...}
FailureResult == ResultObject({ "success", "error" }, FALSE)

\* what a tool other than apply_leave returns: get_today_info returns the
\* date fields alone; the others run in try/except and return the success
\* flag with data or error
ToolReturn(tool, outcome) ==
    IF tool = "get_today_info"
    THEN ResultObject({ "date", "day", "time", "year", "month", "week_number" },
                      FALSE)
    ELSE IF outcome = "done" THEN SuccessResult
    ELSE FailureResult

\* apply_leave on the tables db, for total_days days of a leave type that is
\* found or not, when the database call fails raises (None: none does)
apply_leave(db, leave_type_found, total_days, fails) ==
    LET balance == db.leave_balances
        remaining == balance.total_days - balance.used_days - balance.pending_days
        updated == [ db EXCEPT !.leave_balances.pending_days = @ + total_days ]
        new_leave == [ total_days |-> total_days, status |-> "pending" ]
    IN  IF fails = "leave_types.select" THEN [ db |-> db, result |-> FailureResult ]
        ELSE IF ~ leave_type_found THEN [ db |-> db, result |-> FailureResult ]
        ELSE IF total_days <= 0 THEN [ db |-> db, result |-> FailureResult ]
        ELSE IF fails = "leave_balances.select"
             THEN [ db |-> db, result |-> FailureResult ]
        ELSE IF total_days > remaining THEN [ db |-> db, result |-> FailureResult ]
        ELSE IF fails = "leave_balances.update"
             THEN [ db |-> db, result |-> FailureResult ]
        ELSE IF fails = "leave_requests.insert"
             THEN [ db |-> updated, result |-> FailureResult ]
        ELSE [ db |-> [ updated EXCEPT !.leave_requests = Append(@, new_leave) ],
               result |-> SuccessResult ]

toolframe == << rotvars, chatvars, rot_ret, envvars, concvars >>

\* a call of a tool other than apply_leave
CallTool(tool, outcome) ==
    /\ tool \in ALL_TOOLS \ { "apply_leave" }
    /\ tool_ret' = [ tool |-> tool, raised |-> FALSE,
                     result |-> ToolReturn(tool, outcome), before |-> supabase ]
    /\ UNCHANGED << supabase, toolframe >>

\* a call of apply_leave
CallApplyLeave(leave_type_found, total_days, fails) ==
    LET r == apply_leave(supabase, leave_type_found, total_days, fails)
    IN  /\ supabase' = r.db
        /\ tool_ret' = [ tool |-> "apply_leave", raised |-> FALSE,
                         result |-> r.result, before |-> supabase ]
        /\ UNCHANGED toolframe

NextTools ==
    \/ \E tool \in ALL_TOOLS : \E outcome \in ToolOutcomeKinds :
           CallTool(tool, outcome)
    \/ \E leave_type_found \in BOOLEAN : \E total_days \in 0..MaxLeaveDays :
       \E fails \in { ApplyLeaveCalls[i] : i \in DOMAIN ApplyLeaveCalls } \cup { None } :
           CallApplyLeave(leave_type_found, total_days, fails)

SpecTools == Init /\ [][NextTools]_vars

(***************************************************************************)
(* Properties                                                              *)
(***************************************************************************)
IsToolInvocation(m) == m.type = "ai" /\ m.tool_calls # << >>

\* w holds the ToolMessage of every call of each tool invocation it holds
NoOrphanInvocation(w) ==
    \A i \in DOMAIN w : IsToolInvocation(w[i]) =>
        \A k \in DOMAIN w[i].tool_calls :
            \E j \in DOMAIN w : /\ j > i
                                 /\ w[j].type = "tool"
                                 /\ w[j].tool_call_id = w[i].tool_calls[k].id

\* w holds, before each ToolMessage, the tool invocation that asked for it
NoOrphanResult(w) ==
    \A j \in DOMAIN w : w[j].type = "tool" =>
        \E i \in DOMAIN w : /\ i < j
                             /\ IsToolInvocation(w[i])
                             /\ \E k \in DOMAIN w[i].tool_calls :
                                    w[i].tool_calls[k].id = w[j].tool_call_id

SystemPositions(w) == { i \in DOMAIN w : w[i].type = "system" }

IsNotice(m) == m.type = "system" /\ m.content.text = "UNREAD NOTIFICATIONS"

\* C1: every window passed to the model holds, for each tool invocation it
\* keeps, the result of every one of its calls, and for each tool result it
\* keeps, the invocation that asked for it.
C1_WindowPairing == NoOrphanInvocation(window) /\ NoOrphanResult(window)

\* a window cut by the sliding window whose cut fell inside a pair (leading
\* tool results were dropped) and which still holds a pair
C1_Witness ==
    /\ Len(trace.window_of) > MAX_HISTORY_MESSAGES
    /\ Len(window) < MAX_HISTORY_MESSAGES + 1
    /\ LastN(trace.window_of, MAX_HISTORY_MESSAGES)[1].type = "tool"
    /\ \E i \in DOMAIN window : window[i].type = "tool"

\* C2: the model returned by get_next_model_config is not in _failed_models
\* when the call returns.
C2_ActiveNotFailed == rot_ret.model \notin _failed_models

\* a call returned while models are marked failed, after an exhaustion reset
C2_Witness ==
    /\ rot_ret.model # None
    /\ _failed_models # { }
    /\ _current_key_index > 0

\* every model call of the turn raised the quota error
AllCallsRaisedQuota ==
    /\ trace.calls = Len(trace.errors)
    /\ \A i \in DOMAIN trace.errors : trace.errors[i].text = QuotaError

TurnOver == pc = "idle" /\ trace.no > 0

\* C3: a turn whose every model call raises a retryable error makes exactly
\* 7 attempts, marks 6 pairwise distinct models failed, one before each
\* retry, and returns the failure response that cites the error of the 7th
\* attempt.
C3_SevenAttempts ==
    (TurnOver /\ AllCallsRaisedQuota) =>
        /\ trace.calls = 7
        /\ attempt = 6
        /\ Len(trace.marked) = 6
        /\ \A i, j \in DOMAIN trace.marked : i # j => trace.marked[i] # trace.marked[j]
        /\ result.response = FailureResponse([ text |-> QuotaError, n |-> 7 ])
        /\ result.error = trace.errors[7]

\* such a turn, started with models already marked failed by earlier turns
\* and crossing an exhaustion reset
C3_Witness ==
    /\ TurnOver /\ AllCallsRaisedQuota
    /\ trace.no > 1
    /\ _current_key_index > 0
    /\ Cardinality(_failed_models) < 6

\* the tool results produced so far in the turn are in the state messages
ToolResultsKept ==
    \A e \in trace.effects :
        \E i \in DOMAIN memory[turn.thread] :
            /\ memory[turn.thread][i].type = "tool"
            /\ memory[turn.thread][i].tool_call_id = e.id

\* C4: the first window of an attempt that follows a retryable error is
\* built from state messages that still hold the tool results of the
\* earlier attempts of the turn.
C4_RetryKeepsState ==
    (pc = "agent" /\ attempt > 0 /\ trace.round = 0) => ToolResultsKept

\* C5: no tool call that succeeded in one attempt of a turn is executed
\* again in a later attempt of the same turn.
C5_EffectAtMostOnce ==
    \A e1, e2 \in trace.effects :
        (e1.success /\ e1.name = e2.name /\ e1.args = e2.args)
            => e1.attempt = e2.attempt

\* C6: the window of a turn holds only messages of the turn's own
\* conversation.
C6_WindowOwnConversation ==
    \A i \in DOMAIN window : window[i].conv = turn.conv

\* C7: every window holds exactly one System message, as its first message,
\* with the system prompt for the current caller.
C7_OneSystemFirst ==
    window # << >> =>
        /\ SystemPositions(window) = { 1 }
        /\ window[1].content = CurrentSystemPrompt(turn.user)

\* C8: from state messages of more than MAX_HISTORY_MESSAGES messages, the
\* window has at most MAX_HISTORY_MESSAGES + 1 messages.
C8_WindowSize ==
    Len(trace.window_of) > MAX_HISTORY_MESSAGES
        => Len(window) <= MAX_HISTORY_MESSAGES + 1

\* a window of exactly MAX_HISTORY_MESSAGES + 1 messages cut out of longer
\* state messages
C8_Witness ==
    /\ Len(trace.window_of) > MAX_HISTORY_MESSAGES + 1
    /\ Len(window) = MAX_HISTORY_MESSAGES + 1

\* C9: when the user has unread notifications, the window of the first
\* model call of the turn holds exactly one System message with the notice
\* that lists them.
C9_NoticeInFirstWindow ==
    (trace.calls = 1 /\ turn.nudges # << >>) =>
        Cardinality({ i \in DOMAIN window :
                        /\ window[i].type = "system"
                        /\ window[i].content = NudgeNotice(turn.nudges) }) = 1

\* C10: after a turn, neither the checkpointed messages nor the stored
\* messages hold a notification notice.
C10_NoticeNotRetained ==
    TurnOver =>
        /\ \A t \in Threads : \A i \in DOMAIN memory[t] : ~ IsNotice(memory[t][i])
        /\ \A c \in Conversations : \A i \in DOMAIN db_messages[c] :
              db_messages[c][i].content.text # "UNREAD NOTIFICATIONS"

(***************************************************************************)
(* The agent loop                                                          *)
(***************************************************************************)
\* the only model call of the turn so far was answered without tool calls
FirstCallAnswered ==
    LET messages == memory[turn.thread]
    IN  /\ trace.calls = 1
        /\ messages # << >>
        /\ messages[Len(messages)].type = "ai"
        /\ messages[Len(messages)].tool_calls = << >>

\* C11: when the first model call of a turn is answered without tool calls,
\* the loop is over after that one call (the graph is at END or the turn has
\* returned), no tool was executed, and the turn returns successfully with
\* an empty list of actions
C11_PlainAnswerEndsLoop ==
    FirstCallAnswered =>
        /\ pc \in { "extract", "idle" }
        /\ trace.effects = { } /\ trace.fired = << >>
        /\ pc = "idle" => result.error = NoError /\ result.actions = << >>

\* a second turn has returned after one model call without tool calls
C11_Witness ==
    FirstCallAnswered /\ pc = "idle" /\ trace.no = 2 /\ result.actions = << >>

\* the n calls of the tool invocation at position i of w are followed by
\* exactly n ToolMessages, the k-th one correlated to the k-th call
ResultsFollow(w, i) ==
    LET n == Len(w[i].tool_calls)
    IN  /\ i + n <= Len(w)
        /\ \A k \in 1..n : /\ w[i + k].type = "tool"
                           /\ w[i + k].tool_call_id = w[i].tool_calls[k].id
        /\ i + n < Len(w) => w[i + n + 1].type # "tool"

\* C12: whenever the loop is not inside the ACT step, and so at every model
\* call, each tool invocation of the state is directly followed by one
\* ToolMessage for each of its calls, in call order, whether or not sibling
\* calls failed; the state each model call was made from is of that kind
C12_AllCallsAnswered ==
    /\ trace.no > 0 /\ pc # "tools" =>
          \A i \in DOMAIN memory[turn.thread] :
              IsToolInvocation(memory[turn.thread][i]) =>
                  ResultsFollow(memory[turn.thread], i)
    /\ \A i \in DOMAIN trace.window_of :
          IsToolInvocation(trace.window_of[i]) => ResultsFollow(trace.window_of, i)

\* the model is about to be called after an invocation of two calls of which
\* the first failed and the second succeeded
C12_Witness ==
    /\ pc = "agent"
    /\ \E i \in DOMAIN memory[turn.thread] :
          LET w == memory[turn.thread]
          IN  /\ IsToolInvocation(w[i]) /\ Len(w[i].tool_calls) = 2
              /\ i + 2 = Len(w)
              /\ w[i + 1].content.text = "error"
              /\ w[i + 2].content.text = "success"

\* C13: a turn that succeeds returns, as its actions, one {tool, args}
\* record for each tool call executed during the turn, in the order of
\* execution, the calls of its failed attempts included, and nothing else
C13_ActionsAreFiredCalls ==
    (TurnOver /\ result.error = NoError) =>
        /\ result.actions = trace.fired
        /\ Len(result.actions) = Cardinality(trace.effects)

\* a second turn succeeds on its second attempt: the first attempt executed
\* a tool before its next model call raised, and the turn before executed
\* tools as well
C13_Witness ==
    /\ TurnOver /\ result.error = NoError
    /\ trace.no = 2 /\ attempt = 1
    /\ \E e \in trace.effects : e.attempt = 0
    /\ spent.tool_rounds > Len(result.actions)
    /\ result.actions # << >>

(***************************************************************************)
(* The supervisor                                                          *)
(***************************************************************************)
\* the text of the error holds none of the retryable markers
IsFatal(error) == MarkersIn(error.text) \cap RetryableMarkers = { }

\* C14: an error without retryable marker is the last error of its turn:
\* once it is handled the turn is over with no further attempt, and the
\* rotation globals are what they were before the failing attempt
C14_FatalNoRotation ==
    \A i \in DOMAIN trace.errors :
        IsFatal(trace.errors[i]) =>
            /\ i = Len(trace.errors)
            /\ pc \in { "idle", "raised" }
            /\ attempt = i - 1
            /\ RotState = trace.rot_before
            /\ pc = "idle" => result.error = trace.errors[i]

\* a turn ended by a fatal error on its third attempt, in a process where
\* models were marked failed before the turn
C14_Witness ==
    /\ TurnOver /\ trace.no = 2 /\ attempt = 2
    /\ IsFatal(result.error)
    /\ Cardinality(_failed_models) > 2

\* the turn is over and its last attempt raised
TurnFailed == TurnOver /\ Len(trace.errors) = attempt + 1

\* C15: a turn that ends in failure, by a fatal error or by a retryable
\* error on the last attempt, returns no actions, whatever tools ran, and a
\* response that is the fixed apology with the text of the last error in
\* it, never the text of a model answer
C15_FailureResult ==
    TurnFailed =>
        /\ result.actions = << >>
        /\ result.response.text = "Alamak"
        /\ result.response.error = trace.errors[attempt + 1].text
        /\ result.response.n = attempt + 1
        /\ result.error = last_error /\ last_error = trace.errors[attempt + 1]

\* a turn given up on its seventh attempt, by a retryable error, after
\* tools ran in it
C15_Witness ==
    /\ TurnFailed /\ attempt = MAX_ROTATION_RETRIES - 1
    /\ ~ IsFatal(last_error)
    /\ trace.fired # << >>
    /\ initial_state.actions_taken # << >>

\* C16: agentic_chat never raises to its caller: no request ends with an
\* exception instead of a returned result
C16_NeverPropagates == pc # "raised"

\* the positions of the AIMessages of w that have text
TextPositions(w) == { i \in DOMAIN w : w[i].type = "ai" /\ w[i].content.text # "" }

\* C17: the response a turn returns is never the empty string; on success
\* it is the content of the last AIMessage of the final state that has
\* text, and the fixed acknowledgement when the final state has none
C17_ResponseNeverEmpty ==
    TurnOver =>
        /\ result.response.text # ""
        /\ result.error = NoError =>
              LET w == memory[turn.thread]
                  P == TextPositions(w)
              IN  IF P = { } THEN result.response = Text("Done!", 0)
                  ELSE result.response =
                           w[CHOOSE i \in P : \A j \in P : j <= i].content

\* a turn succeeded with a final state without any text of the model, after
\* a tool was executed, and returned the fixed acknowledgement
C17_Witness ==
    /\ TurnOver /\ result.error = NoError
    /\ TextPositions(memory[turn.thread]) = { }
    /\ trace.fired # << >>
    /\ result.response.text = "Done!"

(***************************************************************************)
(* Rotation over the turns of the process                                  *)
(***************************************************************************)
\* the model the running attempt is bound to has failed with a retryable
\* error before, and is selected all the same
FailedModelSelected == pc = "agent" /\ _agent.model \in trace.quota_failed

\* every model but m is failed: its most recent call raised a retryable error
OthersFailed(m) == ModelNames \ { m } \subseteq trace.failing

\* _failed_models loses members only when a mark makes all models failed
FailedSetKept ==
    \/ _failed_models \subseteq _failed_models'
    \/ /\ pc = "except"
       /\ Cardinality(_failed_models) = NumModels - 1
       /\ _failed_models' = { }

\* C18: a model that has failed with a retryable error is selected for an
\* attempt only when it is not in _failed_models and every other model is
\* failed as well (the last call of each raised a retryable error); and
\* _failed_models only grows, in a turn and from turn to turn, until the
\* step that marks the last model empties it
C18_FailedNotReselected ==
    /\ [](FailedModelSelected => OthersFailed(_agent.model))
    /\ [](pc = "agent" => _agent.model \notin _failed_models)
    /\ [][FailedSetKept]_vars

\* in a later turn an attempt is bound to a model that failed before, while
\* other models are marked failed and after _failed_models was emptied once
C18_Witness ==
    /\ FailedModelSelected /\ trace.no > 2
    /\ _failed_models # { }
    /\ trace.quota_failed = ModelNames
    /\ Cardinality(_failed_models) < Cardinality(trace.failing)

\* the (model, credential) pairs the attempts of the turn were bound to
AttemptedPairs == { trace.attempted[i] : i \in DOMAIN trace.attempted }

\* the pairs of a model and a configured credential
AllPairs ==
    { [ model |-> m, api_key |-> gemini_api_key_list[k] ] :
          m \in ModelNames, k \in DOMAIN gemini_api_key_list }

\* C19 as stated: a turn whose attempts all raise retryable errors gives up
\* only after an attempt on every pair of a model and a configured credential
C19_AllPairsAttempted ==
    (TurnOver /\ AllCallsRaisedQuota) => AllPairs \subseteq AttemptedPairs

\* C19: a turn whose attempts all raise retryable errors gives up after 7
\* attempts bound to 7 different models, so that every model was attempted
\* once, each with the credential current at its attempt
C19_AllModelsAttempted ==
    (TurnOver /\ AllCallsRaisedQuota) =>
        /\ Len(trace.attempted) = MAX_ROTATION_RETRIES
        /\ { trace.attempted[i].model : i \in DOMAIN trace.attempted } = ModelNames
        /\ Cardinality(AttemptedPairs) = NumModels

\* such a turn in a process with two configured credentials; the turn
\* crossed an exhaustion reset, so its attempts used two credential positions
C19_Witness ==
    /\ TurnOver /\ AllCallsRaisedQuota
    /\ Len(gemini_api_key_list) = 2
    /\ Len(trace.marked) = 6
    /\ \E i, j \in DOMAIN trace.attempted :
          trace.attempted[i].api_key # trace.attempted[j].api_key

(***************************************************************************)
(* Concurrent turns                                                        *)
(***************************************************************************)
\* the models whose call raised the quota error in some task
RaisedModels == UNION { tasks[p].raised : p \in Tasks }

\* C20: with two requests in the process, every model a turn marks failed
\* is the model its failing attempt was bound to, and every model in
\* _failed_models is one whose own call raised a retryable error
C20_MarksOwnModel ==
    /\ \A p \in Tasks : \A i \in DOMAIN tasks[p].marked :
          tasks[p].marked[i].model = tasks[p].marked[i].bound
    /\ _failed_models \subseteq RaisedModels

\* both tasks have marked models failed in their second request, one of
\* them a model the other task had marked in an earlier request
C20_Witness ==
    /\ \A p \in Tasks : tasks[p].turns = 2 /\ tasks[p].marked # << >>
    /\ \E i \in DOMAIN tasks[1].marked : \E j \in DOMAIN tasks[2].marked :
          tasks[1].marked[i].model = tasks[2].marked[j].model
    /\ _failed_models # { }

(***************************************************************************)
(* The tools                                                               *)
(***************************************************************************)
\* C21: whatever tool of the registry is called and however its database
\* calls go, the tool does not raise and the object it returns has the
\* success field
C21_ToolsReturnSuccessField ==
    tool_ret.tool # None =>
        ~ tool_ret.raised /\ "success" \in tool_ret.result.keys

\* C22: a tool call that reports success = false has changed nothing, and
\* apply_leave has increased pending_days exactly when it has inserted the
\* leave request and returned success = true
C22_NoEffectWithoutSuccess ==
    tool_ret.tool = "apply_leave" =>
        LET before == tool_ret.before
            increased == supabase.leave_balances.pending_days
                             > before.leave_balances.pending_days
            inserted == Len(supabase.leave_requests) = Len(before.leave_requests) + 1
        IN  /\ ~ tool_ret.result.success => supabase = before
            /\ increased <=> (inserted /\ tool_ret.result.success)

(***************************************************************************)
(* The window after a tool round                                           *)
(***************************************************************************)
\* the position of the last tool invocation of w (w holds one)
LastInvocation(w) ==
    CHOOSE i \in DOMAIN w :
        /\ IsToolInvocation(w[i])
        /\ \A j \in DOMAIN w : IsToolInvocation(w[j]) => j <= i

\* C23: the window of a model call made right after a tool round, whose
\* invocation and results fit in MAX_HISTORY_MESSAGES messages, holds the
\* ToolMessage of every call of that round and more than the system message
C23_ResultsInNextWindow ==
    LET w == trace.window_of
    IN  (w # << >> /\ w[Len(w)].type = "tool") =>
            LET calls == w[LastInvocation(w)].tool_calls
            IN  Len(calls) + 1 <= MAX_HISTORY_MESSAGES =>
                    /\ Len(window) > 1
                    /\ \A k \in DOMAIN calls :
                          \E j \in DOMAIN window :
                              /\ window[j].type = "tool"
                              /\ window[j].tool_call_id = calls[k].id

(***************************************************************************)
(* get_next_model_config as a function of the rotation globals             *)
(***************************************************************************)
\* the rotation globals at the get_next_model_config call a step can make:
\* the call on the current globals, and the call inside
\* rotate_to_next_model(failed_model)
CallStates ==
    { RotState } \cup
    { [ idx |-> _current_model_index + 1, key |-> _current_key_index,
        failed |-> IF m # None THEN _failed_models \cup { m } ELSE _failed_models ] :
          m \in ModelNames \cup { None } }

\* C24: called with every model failed, get_next_model_config empties
\* _failed_models, moves _current_key_index one position on (to 0 after the
\* last credential) and returns MODELS_TO_TRY[0] with the credential at the
\* new position; otherwise it leaves both alone; and the position is always
\* one of 0..len(credentials)-1
C24_ExhaustionReset ==
    \A rs \in CallStates :
        LET r == GetNextModelConfig(rs)
            credentials == gemini_api_key_list
        IN  /\ ModelNames \subseteq rs.failed =>
                  /\ r.failed = { }
                  /\ r.key = (rs.key + 1) % Len(credentials)
                  /\ r.model = MODELS_TO_TRY[1]
                  /\ r.api_key = credentials[r.key + 1]
            /\ ~ (ModelNames \subseteq rs.failed) =>
                  r.failed = rs.failed /\ r.key = rs.key
            /\ r.key \in 0..(Len(credentials) - 1)

\* the pair get_next_model_config returned at the start of the attempt
ActiveAtStart == GetNextModelConfig(trace.rot_before)

\* the turn returned an answer
TurnAnswered ==
    pc = "idle" /\ trace.no > 0 /\ result # NoResult /\ result.error = NoError

\* C25: while an attempt runs the loop, the agent is bound to the model and
\* the credential that were active when the attempt started; an attempt after
\* the first runs a fresh agent, whose conversation state holds the input
\* alone before the first model call; and a successful turn reports the
\* model of the agent that answered
C25_AgentBoundToActivePair ==
    /\ pc \in { "agent", "tools", "extract" } =>
          /\ _agent = [ model |-> ActiveAtStart.model,
                        api_key |-> ActiveAtStart.api_key ]
          /\ _agent_model = _agent.model
          /\ (attempt > 0 /\ pc = "agent" /\ trace.round = 0) =>
                 memory[turn.thread] = initial_state.messages
    /\ TurnAnswered => result.model_used = _agent.model

\* a later turn answers on an agent kept from an earlier turn, after a
\* rotation has changed the active model
C25_Witness ==
    /\ TurnAnswered
    /\ trace.no > 1
    /\ trace.attempted # << >>
    /\ _agent.model # MODELS_TO_TRY[1]
    /\ attempt = 0
    /\ result.model_used = _agent.model

(***************************************************************************)
(* SpecFaults under fairness: the program takes its next step, and a model *)
(* that is called again and again eventually answers without tool calls or *)
(* raises                                                                  *)
(***************************************************************************)
\* the steps of agentic_chat and of the graph that are not the model's
ProgramStep ==
    \/ BeginAttempt
    \/ ToolNode(<< TRUE >>)
    \/ ReturnSuccess
    \/ ExceptRotate
    \/ ExceptGiveUp
    \/ ExceptPropagate

\* a model call that ends the loop of the attempt
ModelEnds ==
    \/ AgentNodeAnswer("answer")
    \/ \E text \in { QuotaError, FatalError } : AgentNodeRaise(text)

SpecFair ==
    SpecFaults /\ WF_vars(ProgramStep) /\ SF_vars(ModelEnds)

\* the turn is running
TurnRunning == pc \in { "attempt", "agent", "tools", "extract", "except" }

\* the turn returned a result to send_message
TurnReturned == pc = "idle" /\ trace.no > 0 /\ result # NoResult

\* attempts made so far in the turn, and why the later ones were started
AttemptsJustified ==
    /\ attempt < MAX_ROTATION_RETRIES
    /\ Len(trace.attempted) <= MAX_ROTATION_RETRIES
    /\ Len(trace.attempted) <= attempt + 1
    /\ TurnRunning /\ pc # "except" =>
          /\ Len(trace.errors) = attempt
          /\ \A i \in 1..Len(trace.errors) : is_retryable_error(trace.errors[i])

\* C26: under fairness every turn returns a result, after at most 7
\* attempts, each attempt after the first having been started because the
\* one before raised a retryable error
C26_TurnReturnsResult ==
    /\ [] AttemptsJustified
    /\ TurnRunning ~> TurnReturned

\* C27: in every state the two functions can reach, a get_next_model_config
\* call followed by another, with no rotate_to_next_model between them,
\* returns the same model and the same credential both times
C27_GetIsIdempotent ==
    LET first == GetNextModelConfig(RotState)
        second == GetNextModelConfig(first)
    IN  /\ second.model = first.model
        /\ second.api_key = first.api_key
        /\ second.raised = first.raised

\* right after an exhaustion reset that left the cursor off the first model:
\* rotate_to_next_model returned MODELS_TO_TRY[0], and the next two calls
\* both return the model at the cursor
C27_Witness ==
    /\ _failed_models = { }
    /\ _current_key_index > 0
    /\ rot_ret.model = MODELS_TO_TRY[1]
    /\ _current_model_index % NumModels # 0
    /\ GetNextModelConfig(RotState).model # MODELS_TO_TRY[1]
    /\ GetNextModelConfig(GetNextModelConfig(RotState)).model =
           GetNextModelConfig(RotState).model

(***************************************************************************)
(* One credential, and a backend in which the models of `healthy` answer   *)
(* every call and every other model raises the quota error. The backend    *)
(* may be in another condition at the start of each turn, an outage        *)
(* included, which is how the rotation globals come to differ from turn to *)
(* turn; requests are served one at a time                                 *)
(***************************************************************************)
\* the conditions of the backend: an outage, one model left, every model up
BackendConditions ==
    { { } } \cup { { m } : m \in ModelNames } \cup { ModelNames }

\* the condition the backend is in when the first attempt of a turn starts
BackendIs(models) ==
    /\ pc = "attempt" /\ attempt = 0
    /\ healthy # models
    /\ healthy' = models
    /\ UNCHANGED << rotvars, chatvars, rot_ret, settings, concvars, toolvars >>

InitOneGood ==
    /\ settings = Settings(<< "a" >>, "")
    /\ InitGlobals

NextOneGood ==
    \/ trace.no < MaxGoodTurns /\ SendMessage("c2")
    \/ \E models \in BackendConditions : BackendIs(models)
    \/ BeginAttempt
    \/ _agent.model \in healthy /\ AgentNodeAnswer("answer")
    \/ _agent.model \notin healthy /\ AgentNodeRaise(QuotaError)
    \/ ReturnSuccess
    \/ ExceptRotate
    \/ ExceptGiveUp

SpecOneGood == InitOneGood /\ [][NextOneGood]_vars

\* the models the attempts of the turn were bound to, in order
AttemptedModels == [ i \in 1..Len(trace.attempted) |-> trace.attempted[i].model ]

PairwiseDistinct(seq) ==
    \A i, j \in 1..Len(seq) : i # j => seq[i] # seq[j]

\* C28: with one credential and at least one model that always answers,
\* every other model raising a retryable error, the attempts of a turn are
\* made on pairwise distinct models, there are at most 7 of them, and the
\* turn returns a successful answer, never the exhaustion failure
C28_HealthyModelFound ==
    healthy # { } =>
        /\ PairwiseDistinct(AttemptedModels)
        /\ Len(AttemptedModels) <= MAX_ROTATION_RETRIES
        /\ pc # "except" \/ attempt < MAX_ROTATION_RETRIES - 1
        /\ (pc = "idle" /\ trace.no > 0) =>
               /\ result.error = NoError
               /\ result.model_used \in healthy
               /\ result.response # FailureResponse(last_error)

\* a turn answered by the only healthy model on the seventh attempt, after
\* the models marked in an earlier outage were cleared in the middle of it
C28_Witness ==
    /\ pc = "idle" /\ trace.no > 1
    /\ Cardinality(healthy) = 1
    /\ result.error = NoError
    /\ result.model_used \in healthy
    /\ Len(AttemptedModels) = MAX_ROTATION_RETRIES
    /\ PairwiseDistinct(AttemptedModels)

\* C29: the response of a successful turn is the text of the message that
\* ended the loop of this turn, and when that message has no text it is the
\* fixed acknowledgement, never the text of an assistant message of the
\* history or of an earlier turn
C29_ResponseFromThisTurn ==
    (TurnOver /\ result.error = NoError) =>
        LET final_messages == memory[turn.thread]
            last == final_messages[Len(final_messages)]
        IN  /\ last.content.text # "" =>
                  result.response = last.content /\ result.response.n = trace.no
            /\ last.content.text = "" => result.response = Text("Done!", 0)

\* the configured credential list of the process
CredentialList == Settings_gemini_api_key_list(settings)

\* C30: the credential an agent is bound to is one whole entry of
\* Settings.gemini_api_key_list, the entry at _current_key_index, and
\* "No Gemini API keys configured!" is raised if and only if that list is
\* empty
C30_WholeCredential ==
    /\ pc \in { "agent", "tools", "extract" } =>
          /\ CredentialList # << >>
          /\ _current_key_index < Len(CredentialList)
          /\ _agent.api_key = CredentialList[_current_key_index + 1]
    /\ (pc \in { "except", "raised" } /\ exc.text = NoKeysError) =>
          CredentialList = << >>

====
